---- MODULE Spec2Model ----
(***************************************************************************)
(* Verification model of tamarervin/mag_model:                             *)
(*   src/settings.py   directory-path constants computed at import time   *)
(*   src/utilities.py  read_csv(csv_file_path) and get_dates(date)        *)
(*                                                                         *)
(* Text is a sequence of one-character strings, so that parsing and        *)
(* formatting are computed character by character.                         *)
(***************************************************************************)
EXTENDS Integers, Sequences, FiniteSets, TLC

(***************************************************************************)
(* Bounds of the model.                                                    *)
(***************************************************************************)
\* longest run of fractional-second digits among the date strings tried
MaxFracDigits == 7
\* longest file content (in characters) read_csv is run on
MaxFileLen == 3
\* number of concurrent callers in Spec
NumCallers == 2
\* deepest working directory (in path components) settings.py is loaded from
MaxCwdDepth == 3

(***************************************************************************)
(* Characters and numbers.                                                 *)
(***************************************************************************)
Digits == {"0", "1", "2", "3", "4", "5", "6", "7", "8", "9"}

DigitVal(c) ==
    CASE c = "0" -> 0 [] c = "1" -> 1 [] c = "2" -> 2 [] c = "3" -> 3
      [] c = "4" -> 4 [] c = "5" -> 5 [] c = "6" -> 6 [] c = "7" -> 7
      [] c = "8" -> 8 [] c = "9" -> 9

DigitChar(n) ==
    CASE n = 0 -> "0" [] n = 1 -> "1" [] n = 2 -> "2" [] n = 3 -> "3"
      [] n = 4 -> "4" [] n = 5 -> "5" [] n = 6 -> "6" [] n = 7 -> "7"
      [] n = 8 -> "8" [] n = 9 -> "9"

\* int(s) for a string of digits; a leading space (the " [1-9]" day form) is
\* skipped as int() skips white space
RECURSIVE ToInt(_)
ToInt(s) ==
    IF s = <<>> THEN 0
    ELSE IF Head(s) = " " THEN ToInt(Tail(s))
    ELSE 10 * ToInt(SubSeq(s, 1, Len(s) - 1)) + DigitVal(s[Len(s)])

\* decimal rendering of a natural number
RECURSIVE NatStr(_)
NatStr(n) ==
    IF n < 10 THEN <<DigitChar(n)>>
    ELSE NatStr(n \div 10) \o <<DigitChar(n % 10)>>

\* C's %d of a signed integer
IntStr(n) == IF n < 0 THEN <<"-">> \o NatStr(0 - n) ELSE NatStr(n)

\* zero padded to width w (%02d, %04d)
RECURSIVE Pad(_, _)
Pad(s, w) == IF Len(s) >= w THEN s ELSE Pad(<<"0">> \o s, w)

\* right padded with zeros to width w (strptime's %f: s += "0" * (6 - len(s)))
RECURSIVE PadRight(_, _)
PadRight(s, w) == IF Len(s) >= w THEN s ELSE PadRight(s \o <<"0">>, w)

CharAt(s, i) == IF i >= 1 /\ i <= Len(s) THEN s[i] ELSE ""

\* length of the run of digits of s that starts at i
RECURSIVE DigitRun(_, _)
DigitRun(s, i) == IF CharAt(s, i) \in Digits THEN 1 + DigitRun(s, i + 1) ELSE 0

\* index of the last "." of s, 0 when there is none (str.rindex)
RECURSIVE RIndexDot(_, _)
RIndexDot(s, i) ==
    IF i = 0 THEN 0 ELSE IF s[i] = "." THEN i ELSE RIndexDot(s, i - 1)

RECURSIVE StripTrailingZeros(_)
StripTrailingZeros(s) ==
    IF s # <<>> /\ s[Len(s)] = "0" THEN StripTrailingZeros(SubSeq(s, 1, Len(s) - 1))
    ELSE s

(***************************************************************************)
(* The proleptic Gregorian calendar, as datetime and the time library      *)
(* compute it.                                                             *)
(***************************************************************************)
IsLeap(y) == (y % 4 = 0 /\ y % 100 # 0) \/ y % 400 = 0

DaysInMonth(y, m) ==
    IF m = 2 THEN (IF IsLeap(y) THEN 29 ELSE 28)
    ELSE IF m \in {4, 6, 9, 11} THEN 30 ELSE 31

\* days from 1970-01-01 to y-m-d
DaysFromCivil(y, m, d) ==
    LET yy  == IF m <= 2 THEN y - 1 ELSE y
        era == yy \div 400
        yoe == yy - era * 400
        mp  == IF m > 2 THEN m - 3 ELSE m + 9
        doy == (153 * mp + 2) \div 5 + d - 1
        doe == yoe * 365 + yoe \div 4 - yoe \div 100 + doy
    IN  era * 146097 + doe - 719468

\* the calendar date of the day z days after 1970-01-01
CivilFromDays(z) ==
    LET zz  == z + 719468
        era == zz \div 146097
        doe == zz - era * 146097
        yoe == (doe - doe \div 1460 + doe \div 36524 - doe \div 146096) \div 365
        doy == doe - (365 * yoe + yoe \div 4 - yoe \div 100)
        mp  == (5 * doy + 2) \div 153
        d   == doy - (153 * mp + 2) \div 5 + 1
        m   == IF mp < 10 THEN mp + 3 ELSE mp - 9
        y   == yoe + era * 400 + (IF m <= 2 THEN 1 ELSE 0)
    IN  [year |-> y, month |-> m, day |-> d]

\* Julian Day Number (the day that starts at noon) of y-m-d
JulianDayNumber(y, m, d) == DaysFromCivil(y, m, d) + 2440588

(***************************************************************************)
(* Python values.  Every value is a record with a type field; an object    *)
(* the caller passed in carries its identity in id, an object built by a   *)
(* call has id 0.                                                          *)
(***************************************************************************)
None == [type |-> "NoneType"]

Unbound == [type |-> "unbound"]

Str(s) == [type |-> "str", chars |-> s]

\* a float holding the Julian Date whole + eighths/8
Float(whole, eighths) == [type |-> "float", whole |-> whole, eighths |-> eighths]

\* the integer n (held like a float without a fractional part)
PyInt(n) == [type |-> "int", whole |-> n, eighths |-> 0]

Raised(exc) == [type |-> "raised", exc |-> exc]

IsRaised(v) == v.type = "raised"

\* datetime.datetime(year, month, day, hour, minute, second, microsecond)
datetime(id, y, mo, d, h, mi, s, us) ==
    IF y < 1 \/ y > 9999 \/ mo < 1 \/ mo > 12 \/ d < 1 \/ d > DaysInMonth(y, mo)
       \/ h > 23 \/ mi > 59 \/ s > 59 \/ us > 999999
    THEN Raised("ValueError")
    ELSE [type |-> "datetime", id |-> id, year |-> y, month |-> mo, day |-> d,
          hour |-> h, minute |-> mi, second |-> s, microsecond |-> us]

\* the calendar fields of a datetime, without its identity
Fields(dt) ==
    <<dt.year, dt.month, dt.day, dt.hour, dt.minute, dt.second, dt.microsecond>>

(***************************************************************************)
(* datetime.datetime.strptime(date_str, '%Y-%m-%dT%H:%M:%S.%f')            *)
(* The format is compiled to a regular expression (case-insensitive); each *)
(* directive is an ordered alternation that is tried with backtracking.    *)
(***************************************************************************)
FMT_PARSE ==
    <<"%Y", "-", "%m", "-", "%d", "T", "%H", ":", "%M", ":", "%S", ".", "%f">>

Lower(c) == IF c = "T" THEN "t" ELSE c

\* descending sequence n, n-1, ..., 1
RECURSIVE CountDown(_)
CountDown(n) == IF n <= 0 THEN <<>> ELSE <<n>> \o CountDown(n - 1)

Min(a, b) == IF a < b THEN a ELSE b

\* the lengths directive dir can match at position i of s, in the order the
\* regular expression's alternatives are tried
DirLens(dir, s, i) ==
    LET c1 == CharAt(s, i)
        c2 == CharAt(s, i + 1)
        D19 == Digits \ {"0"}
        two(ok) == IF ok THEN <<2>> ELSE <<>>
        one(ok) == IF ok THEN <<1>> ELSE <<>>
    IN  CASE dir = "%Y" -> IF DigitRun(s, i) >= 4 THEN <<4>> ELSE <<>>
          [] dir = "%m" -> two((c1 = "1" /\ c2 \in {"0", "1", "2"}) \/ (c1 = "0" /\ c2 \in D19))
                           \o one(c1 \in D19)
          [] dir = "%d" -> two((c1 = "3" /\ c2 \in {"0", "1"}) \/ (c1 \in {"1", "2"} /\ c2 \in Digits)
                               \/ (c1 = "0" /\ c2 \in D19))
                           \o one(c1 \in D19)
                           \o two(c1 = " " /\ c2 \in D19)
          [] dir = "%H" -> two((c1 = "2" /\ c2 \in {"0", "1", "2", "3"})
                               \/ (c1 \in {"0", "1"} /\ c2 \in Digits))
                           \o one(c1 \in Digits)
          [] dir = "%M" -> two(c1 \in {"0", "1", "2", "3", "4", "5"} /\ c2 \in Digits)
                           \o one(c1 \in Digits)
          [] dir = "%S" -> two((c1 = "6" /\ c2 \in {"0", "1"})
                               \/ (c1 \in {"0", "1", "2", "3", "4", "5"} /\ c2 \in Digits))
                           \o one(c1 \in Digits)
          [] dir = "%f" -> CountDown(Min(6, DigitRun(s, i)))
          [] OTHER -> one(c1 # "" /\ Lower(c1) = Lower(dir))

NoMatch == [ok |-> FALSE, groups |-> <<>>, end |-> 0]

\* re.match of the compiled format from directive k on, at position i: the
\* first match in backtracking order, with the text each directive matched
RECURSIVE ReMatch(_, _, _, _)
RECURSIVE TryLens(_, _, _, _, _)
ReMatch(fmt, k, s, i) ==
    IF k > Len(fmt) THEN [ok |-> TRUE, groups |-> <<>>, end |-> i]
    ELSE TryLens(fmt, k, s, i, DirLens(fmt[k], s, i))

TryLens(fmt, k, s, i, lens) ==
    IF lens = <<>> THEN NoMatch
    ELSE LET n == Head(lens)
             r == ReMatch(fmt, k + 1, s, i + n)
         IN  IF r.ok
             THEN [ok |-> TRUE, groups |-> <<SubSeq(s, i, i + n - 1)>> \o r.groups,
                   end |-> r.end]
             ELSE TryLens(fmt, k, s, i, Tail(lens))

\* text left after the match is ignored
strptime_ignores_rest(s, m) == FALSE

\* "unconverted data remains" when the match stops short of the end
strptime_unconverted(s, m) == m.end # Len(s) + 1

strptime(s) ==
    LET m == ReMatch(FMT_PARSE, 1, s, 1)
        g == m.groups
    IN  IF ~m.ok THEN Raised("ValueError")
        ELSE IF strptime_unconverted(s, m) THEN Raised("ValueError")
        ELSE datetime(0, ToInt(g[1]), ToInt(g[3]), ToInt(g[5]), ToInt(g[7]),
                      ToInt(g[9]), ToInt(g[11]), ToInt(PadRight(g[13], 6)))

(***************************************************************************)
(* date_obj.strftime('%Y-%m-%dT%H:%M:%S.%s')                               *)
(* %s is not a directive Python defines: it is handed to the platform's C  *)
(* library.  glibc renders the seconds since the epoch (local time zone,   *)
(* here UTC); a C library without %s makes Python raise ValueError.        *)
(***************************************************************************)
Platforms == {"glibc", "nopercent_s"}

EpochSeconds(dt) ==
    DaysFromCivil(dt.year, dt.month, dt.day) * 86400
        + dt.hour * 3600 + dt.minute * 60 + dt.second

strftime(obj, platform) ==
    IF obj.type # "datetime" THEN Raised("AttributeError")
    ELSE IF platform # "glibc" THEN Raised("ValueError")
    ELSE Str(NatStr(obj.year) \o <<"-">> \o Pad(NatStr(obj.month), 2) \o <<"-">>
             \o Pad(NatStr(obj.day), 2) \o <<"T">> \o Pad(NatStr(obj.hour), 2)
             \o <<":">> \o Pad(NatStr(obj.minute), 2) \o <<":">>
             \o Pad(NatStr(obj.second), 2) \o <<".">> \o IntStr(EpochSeconds(obj)))

(***************************************************************************)
(* astropy.time.Time.  A Time holds an instant (Julian Day Number of the   *)
(* calendar day, second of the day, fraction of the second) and a format   *)
(* attribute that can be reassigned.                                       *)
(***************************************************************************)
FMT_ISOT == <<"%Y", "-", "%m", "-", "%d", "T", "%H", ":", "%M", ":", "%S">>

\* Time(date_str): everything after the last "." is read with float() as the
\* fraction of a second, the rest with time.strptime under the "isot" format
Time_str(s) ==
    LET idot == RIndexDot(s, Len(s))
        body == IF idot = 0 THEN s ELSE SubSeq(s, 1, idot - 1)
        frac == IF idot = 0 THEN <<"0">> ELSE SubSeq(s, idot + 1, Len(s))
        m    == ReMatch(FMT_ISOT, 1, body, 1)
        g    == m.groups
        y    == ToInt(g[1])
        mo   == ToInt(g[3])
        d    == ToInt(g[5])
    IN  IF frac = <<>> \/ DigitRun(frac, 1) # Len(frac) THEN Raised("ValueError")
        ELSE IF ~m.ok \/ m.end # Len(body) + 1 THEN Raised("ValueError")
        ELSE IF y < 1 \/ d > DaysInMonth(y, mo) THEN Raised("ValueError")
        ELSE [type |-> "Time", format |-> "isot",
              jdn |-> JulianDayNumber(y, mo, d),
              sod |-> ToInt(g[7]) * 3600 + ToInt(g[9]) * 60 + ToInt(g[11]),
              frac |-> StripTrailingZeros(frac)]

\* Time(date, format='jd') for a float
Time_jd(x) ==
    [type |-> "Time", format |-> "jd",
     jdn |-> x.whole + (x.eighths + 4) \div 8,
     sod |-> ((x.eighths + 4) % 8) * 10800,
     frac |-> <<>>]

\* t.datetime: the instant as a new datetime.datetime
Time_datetime(t) ==
    LET c == CivilFromDays(t.jdn - 2440588)
    IN  datetime(0, c.year, c.month, c.day, t.sod \div 3600, (t.sod % 3600) \div 60,
                 t.sod % 60, 0)

\* date_jd.format = 'jd'
SetFormat(t, f) == [t EXCEPT !.format = f]

(***************************************************************************)
(* The file system read_csv opens files of.  A file's content is a         *)
(* sequence of symbols: "a" (an ordinary character), "," , LF (a newline), *)
(* DQ (a double quote) and BAD (a byte that is not valid text).            *)
(***************************************************************************)
LF == "LF"

DQ == "DQ"

BAD == "BAD"

CsvAlphabet == {"a", ",", LF, DQ, BAD}

File(content) == [kind |-> "file", content |-> content]

Missing == [kind |-> "missing"]

Directory == [kind |-> "dir"]

Unreadable == [kind |-> "noperm"]

\* a mode that creates the file when the path is missing
open_outcome_creates(entry) ==
    CASE entry.kind \in {"file", "missing"} -> "ok"
      [] entry.kind = "dir" -> "IsADirectoryError"
      [] entry.kind = "noperm" -> "PermissionError"

\* open(csv_file_path, newline=''): the exception it raises, or "ok"
open_outcome(entry) ==
    CASE entry.kind = "file" -> "ok"
      [] entry.kind = "missing" -> "FileNotFoundError"
      [] entry.kind = "dir" -> "IsADirectoryError"
      [] entry.kind = "noperm" -> "PermissionError"

NoHandle == [state |-> "none"]

\* the file object open() returns: positioned at the start, open
open_file(path) == [state |-> "open", path |-> path, pos |-> 1]

\* one file object shared by every caller
handle_shared(p) == 1

\* the key of the file object a caller's open() creates: every call gets a
\* file object of its own
handle_of(p) == p

\* the file is closed only when the body ended without an exception
with_exit_leaky(h, raised) == IF raised THEN h ELSE [h EXCEPT !.state = "closed"]

\* leaving the with block closes the file, whether or not the body raised
with_exit(h, raised) == [h EXCEPT !.state = "closed"]

(***************************************************************************)
(* csv.reader(f) with the default dialect: delimiter ",", quotechar '"',   *)
(* doublequote, no escapechar, not strict.  The parser is the state        *)
(* machine of the csv module, fed one line at a time and then an           *)
(* end-of-line mark (EOL).                                                 *)
(***************************************************************************)
EOL == "EOL"

save_field(S) == [S EXCEPT !.fields = Append(S.fields, S.field), !.field = <<>>]

add_char(S, c) == [S EXCEPT !.field = Append(S.field, c)]

start_field(S, c) ==
    IF c \in {LF, EOL}
    THEN [save_field(S) EXCEPT !.st = IF c = EOL THEN "START_RECORD" ELSE "EAT_CRNL"]
    ELSE IF c = DQ THEN [S EXCEPT !.st = "IN_QUOTED_FIELD"]
    ELSE IF c = "," THEN [save_field(S) EXCEPT !.st = "START_FIELD"]
    ELSE [add_char(S, c) EXCEPT !.st = "IN_FIELD"]

parse_process_char(S, c) ==
    CASE S.st = "START_RECORD" ->
            IF c = EOL THEN S
            ELSE IF c = LF THEN [S EXCEPT !.st = "EAT_CRNL"]
            ELSE start_field(S, c)
      [] S.st = "START_FIELD" -> start_field(S, c)
      [] S.st = "IN_FIELD" ->
            IF c \in {LF, EOL}
            THEN [save_field(S) EXCEPT !.st = IF c = EOL THEN "START_RECORD" ELSE "EAT_CRNL"]
            ELSE IF c = "," THEN [save_field(S) EXCEPT !.st = "START_FIELD"]
            ELSE add_char(S, c)
      [] S.st = "IN_QUOTED_FIELD" ->
            IF c = EOL THEN S
            ELSE IF c = DQ THEN [S EXCEPT !.st = "QUOTE_IN_QUOTED_FIELD"]
            ELSE add_char(S, c)
      [] S.st = "QUOTE_IN_QUOTED_FIELD" ->
            IF c = DQ THEN [add_char(S, c) EXCEPT !.st = "IN_QUOTED_FIELD"]
            ELSE IF c = "," THEN [save_field(S) EXCEPT !.st = "START_FIELD"]
            ELSE IF c \in {LF, EOL}
            THEN [save_field(S) EXCEPT !.st = IF c = EOL THEN "START_RECORD" ELSE "EAT_CRNL"]
            ELSE [add_char(S, c) EXCEPT !.st = "IN_FIELD"]
      [] S.st = "EAT_CRNL" ->
            IF c = LF THEN S
            ELSE IF c = EOL THEN [S EXCEPT !.st = "START_RECORD"]
            ELSE [S EXCEPT !.st = "ERROR"]
      [] OTHER -> S

\* next(reader) on the text from position i: lines are read (each ends after
\* its LF, or at the end of the text) until a record is complete
RECURSIVE Reader_iternext(_, _, _)
Reader_iternext(content, i, S) ==
    IF i > Len(content)
    THEN \* the file has no more lines
         IF S.field # <<>> \/ S.st = "IN_QUOTED_FIELD"
         THEN [kind |-> "row", row |-> save_field(S).fields, pos |-> i]
         ELSE [kind |-> "stop", row |-> <<>>, pos |-> i]
    ELSE LET S1 == parse_process_char(S, content[i])
             endOfLine == content[i] = LF \/ i = Len(content)
             S2 == IF endOfLine THEN parse_process_char(S1, EOL) ELSE S1
         IN  IF S1.st = "ERROR" \/ S2.st = "ERROR"
             THEN [kind |-> "raise", row |-> <<>>, pos |-> i]
             ELSE IF endOfLine /\ S2.st = "START_RECORD"
             THEN [kind |-> "row", row |-> S2.fields, pos |-> i + 1]
             ELSE Reader_iternext(content, i + 1, S2)

parse_reset == [st |-> "START_RECORD", fields |-> <<>>, field |-> <<>>]

\* the text file decodes its bytes when the first line is asked for: a file
\* shorter than one read buffer is decoded whole
Decodable(content) == \A i \in 1..Len(content) : content[i] # BAD

\* one step of list(reader): the next row, the end of the rows, or an exception
reader_next(content, pos) ==
    IF ~Decodable(content)
    THEN [kind |-> "raise", exc |-> "UnicodeDecodeError", row |-> <<>>, pos |-> pos]
    ELSE LET r == Reader_iternext(content, pos, parse_reset)
         IN  [kind |-> r.kind, exc |-> IF r.kind = "raise" THEN "csv.Error" ELSE "none",
              row |-> r.row, pos |-> r.pos]

(***************************************************************************)
(* Paths (settings.py).  A path is a sequence of symbols, each the         *)
(* separator "/" or a name.  The working directory is a sequence of names  *)
(* (os.getcwd() is absolute and free of symbolic links).                   *)
(***************************************************************************)
SEP == "/"

DirNames == {"home", "my proj", "src"}

\* the sequences of length 0..n over S
RECURSIVE SeqsUpTo(_, _)
SeqsUpTo(S, n) ==
    IF n = 0 THEN {<<>>}
    ELSE LET shorter == SeqsUpTo(S, n - 1)
         IN  shorter \cup {Append(s, x) : s \in {q \in shorter : Len(q) = n - 1}, x \in S}

\* the absolute path string of a sequence of names: "/" for the root
RECURSIVE AbsPath(_)
AbsPath(names) ==
    IF names = <<>> THEN <<SEP>>
    ELSE IF Len(names) = 1 THEN <<SEP, names[1]>>
    ELSE AbsPath(SubSeq(names, 1, Len(names) - 1)) \o <<SEP, names[Len(names)]>>

\* plain concatenation in place of os.path.join
join_concat(a, b) == a \o b

\* os.path.join(a, b)
join(a, b) ==
    IF b # <<>> /\ Head(b) = SEP THEN b
    ELSE IF a = <<>> \/ a[Len(a)] = SEP THEN a \o b
    ELSE a \o <<SEP>> \o b

\* the parent of a directory; the root is its own parent
Parent(names) == IF names = <<>> THEN <<>> ELSE SubSeq(names, 1, Len(names) - 1)

\* os.path.realpath('../../') in working directory cwd
realpath_up2(cwd) == AbsPath(Parent(Parent(cwd)))

\* class CsvDir
CsvDir_CSV_DIR(base) == join(base, <<"csv_files">>)

CsvDir_CALC(csv_dir) == join(csv_dir, <<"calcs">>)

\* class DataDir
DataDir_DATA_DIR(base) == join(base, <<"data">>)

DataDir_GONG(data_dir) == join(data_dir, <<"gong">>)

DataDir_PSP(data_dir) == join(data_dir, <<"psp">>)

DataDir_SO(data_dir) == join(data_dir, <<"so">>)

\* class ImgDir
ImgDir_IMG_DIR(base) == join(base, <<"images">>)

\* a class attribute that is not yet bound
Unset == <<"<unset>">>

(***************************************************************************)
(* The inputs the calls are tried on.                                      *)
(***************************************************************************)
\* n zeros
RECURSIVE Zeros(_)
Zeros(n) == IF n = 0 THEN <<>> ELSE <<"0">> \o Zeros(n - 1)

YearTexts == {<<"2", "0", "2", "2">>, <<"0", "0", "0", "0">>}

MonthTexts == {<<"0", "9">>, <<"9">>, <<"1", "3">>}

DayTexts == {<<"1", "9">>, <<"3", "1">>, <<" ", "9">>}

TTexts == {<<"T">>, <<"t">>, <<" ">>}

HourTexts == {<<"1", "2">>, <<"1">>}

MinuteTexts == {<<"0", "0">>, <<"7">>}

SecondTexts == {<<"0", "0">>, <<"5">>, <<"6", "0">>}

\* the text after the seconds: nothing, or "." and 0..MaxFracDigits digits
FracTexts ==
    {<<>>} \cup {<<".">> \o Zeros(n) : n \in 0..MaxFracDigits}
           \cup {<<".", "5">>, <<".", "0", "0", "0", "0", "0", "0", " ">>}

DateText(y, mo, d, tt, h, mi, s, f) ==
    y \o <<"-">> \o mo \o <<"-">> \o d \o tt \o h \o <<":">> \o mi \o <<":">> \o s \o f

NotADate == <<"n", "o", "t", "-", "a", "-", "d", "a", "t", "e">>

StrInputs ==
    {Str(DateText(y, mo, d, tt, h, mi, s, f)) :
        y \in YearTexts, mo \in MonthTexts, d \in DayTexts, tt \in TTexts,
        h \in HourTexts, mi \in MinuteTexts, s \in SecondTexts, f \in FracTexts}
    \cup {Str(NotADate), Str(<<>>)}

\* 2022-09-19T12:00:00.000000
GoodText ==
    DateText(<<"2", "0", "2", "2">>, <<"0", "9">>, <<"1", "9">>, <<"T">>,
             <<"1", "2">>, <<"0", "0">>, <<"0", "0">>, <<".">> \o Zeros(6))

\* Julian Dates: 2022-09-19 12:00 and 00:00, 1970-01-01 00:00, a day of 1968,
\* and one before year 1
FloatInputs ==
    {Float(2459842, 0), Float(2459841, 4), Float(2459842, 1), Float(2440587, 4),
     Float(2440000, 4), Float(0, 0)}

DatetimeInputs ==
    {datetime(id, y, 9, 19, h, 0, s, us) :
        id \in {1, 2}, y \in {1969, 2022}, h \in {0, 12}, s \in {0, 59}, us \in {0, 5}}

OtherInputs == {PyInt(2459842), None}

DateInputs == StrInputs \cup FloatInputs \cup DatetimeInputs \cup OtherInputs

\* the inputs of the concurrent callers
ConcDateInputs ==
    {Str(GoodText), Str(NotADate), Float(2459842, 0),
     datetime(1, 2022, 9, 19, 12, 0, 0, 0)}

Paths == {"f.csv", "missing.csv", "dir", "noperm.csv"}

Contents == SeqsUpTo(CsvAlphabet, MaxFileLen)

FsWith(c) ==
    [path \in Paths |->
        CASE path = "f.csv" -> File(c)
          [] path = "missing.csv" -> Missing
          [] path = "dir" -> Directory
          [] OTHER -> Unreadable]

\* a header row and a data row of another length; a bad byte after a row
ConcContents == {<<"a", ",", "a", LF, "a">>, <<"a", LF, BAD>>}

ConcPaths == {"f.csv", "missing.csv"}

(***************************************************************************)
(* State.                                                                  *)
(***************************************************************************)
VARIABLES
    platform,   \* the C library under Python
    fs,         \* the files: path -> entry
    callers,    \* the execution contexts that make calls
    fn,         \* per caller: the function it called
    pc,         \* per caller: the source line it is at
    arg,        \* per caller: the argument of its call
    loc,        \* per caller: its local variables
    ret,        \* per caller: the value returned
    exc,        \* per caller: the exception that left the call
    branch,     \* per caller: the branches of get_dates it entered
    prev,       \* per caller: its previous get_dates call (argument and result)
    handles,    \* the file objects, by key
    cwd,        \* the process's working directory
    spc,        \* how far the import of settings.py has got
    BASE_DIR, CSV_DIR, CALC, DATA_DIR, GONG, PSP, SO, IMG_DIR

callVars == <<fn, pc, arg, loc, ret, exc, branch, prev, handles>>

envVars == <<platform, fs, callers>>

settingsVars == <<cwd, spc, BASE_DIR, CSV_DIR, CALC, DATA_DIR, GONG, PSP, SO, IMG_DIR>>

vars == <<envVars, callVars, settingsVars>>

CallerIds == 1..NumCallers

NoLocals ==
    [date_str |-> Unbound, date_obj |-> Unbound, date_jd |-> Unbound, t |-> Unbound,
     f |-> 0, reader |-> 0, csv_list |-> <<>>, pending |-> "none"]

InitCalls ==
    /\ fn = [p \in CallerIds |-> "none"]
    /\ pc = [p \in CallerIds |-> "idle"]
    /\ arg = [p \in CallerIds |-> None]
    /\ loc = [p \in CallerIds |-> NoLocals]
    /\ ret = [p \in CallerIds |-> None]
    /\ exc = [p \in CallerIds |-> "none"]
    /\ branch = [p \in CallerIds |-> <<>>]
    /\ prev = [p \in CallerIds |-> None]
    /\ handles = [k \in CallerIds |-> NoHandle]

InitSettingsUnloaded ==
    /\ spc = "unloaded"
    /\ BASE_DIR = Unset /\ CSV_DIR = Unset /\ CALC = Unset /\ DATA_DIR = Unset
    /\ GONG = Unset /\ PSP = Unset /\ SO = Unset /\ IMG_DIR = Unset

(***************************************************************************)
(* get_dates(date), one action per source line.                            *)
(***************************************************************************)
\* the exception leaves the call: the frame is dropped, nothing is returned
Raise(p, e) ==
    /\ pc' = [pc EXCEPT ![p] = "raised"]
    /\ exc' = [exc EXCEPT ![p] = e]
    /\ loc' = [loc EXCEPT ![p] = NoLocals]
    /\ UNCHANGED <<fn, arg, ret, branch, prev>>

Goto(p, line) == pc' = [pc EXCEPT ![p] = line]

\* integers taken for Julian Dates too: isinstance(date, (int, float))
Dispatch_numbers(date) ==
    IF date.type = "str" THEN "str"
    ELSE IF date.type \in {"float", "int"} THEN "float"
    ELSE "other"

\* the branch the isinstance tests select
Dispatch(date) ==
    IF date.type = "str" THEN "str"
    ELSE IF date.type = "float" THEN "float"
    ELSE "other"

\* the second and third elements in the wrong order
ReturnTuple_swapped(date_str, date_obj, date_jd) ==
    [type |-> "tuple", items |-> <<date_str, date_jd, date_obj>>]

\* return date_str, date_obj, date_jd
ReturnTuple(date_str, date_obj, date_jd) ==
    [type |-> "tuple", items |-> <<date_str, date_obj, date_jd>>]

DateArgs == IF Cardinality(callers) = 1 THEN DateInputs ELSE ConcDateInputs

Call_get_dates(p) ==
    /\ p \in callers
    /\ pc[p] = "idle"
    /\ \E date \in DateArgs :
          arg' = [arg EXCEPT ![p] = date]
    /\ fn' = [fn EXCEPT ![p] = "get_dates"]
    /\ Goto(p, "L54")
    /\ UNCHANGED <<loc, ret, exc, branch, prev, handles>>
    /\ UNCHANGED <<envVars, settingsVars>>

\* if isinstance(date, str): ... elif isinstance(date, float): ... else:
L54(p) ==
    /\ pc[p] = "L54"
    /\ LET b == Dispatch(arg[p])
       IN  /\ branch' = [branch EXCEPT ![p] = Append(@, b)]
           /\ Goto(p, IF b = "str" THEN "L55" ELSE IF b = "float" THEN "L60" ELSE "L65")
    /\ UNCHANGED <<fn, arg, loc, ret, exc, prev, handles>>
    /\ UNCHANGED <<envVars, settingsVars>>

\* date_str = date
L55(p) ==
    /\ pc[p] = "L55"
    /\ loc' = [loc EXCEPT ![p].date_str = arg[p]]
    /\ Goto(p, "L56")
    /\ UNCHANGED <<fn, arg, ret, exc, branch, prev, handles>>
    /\ UNCHANGED <<envVars, settingsVars>>

\* date_obj = datetime.datetime.strptime(date_str, '%Y-%m-%dT%H:%M:%S.%f')
L56(p) ==
    /\ pc[p] = "L56"
    /\ LET r == strptime(loc[p].date_str.chars)
       IN  IF IsRaised(r) THEN Raise(p, r.exc)
           ELSE /\ loc' = [loc EXCEPT ![p].date_obj = r]
                /\ Goto(p, "L57")
                /\ UNCHANGED <<fn, arg, ret, exc, branch, prev>>
    /\ UNCHANGED handles
    /\ UNCHANGED <<envVars, settingsVars>>

\* date_jd = Time(date_str)
L57(p) ==
    /\ pc[p] = "L57"
    /\ LET r == Time_str(loc[p].date_str.chars)
       IN  IF IsRaised(r) THEN Raise(p, r.exc)
           ELSE /\ loc' = [loc EXCEPT ![p].date_jd = r]
                /\ Goto(p, "L58")
                /\ UNCHANGED <<fn, arg, ret, exc, branch, prev>>
    /\ UNCHANGED handles
    /\ UNCHANGED <<envVars, settingsVars>>

\* the text branch re-deriving date_str from date_obj as the other branches do
L58_reformats(p) ==
    /\ pc[p] = "L58"
    /\ LET r == strftime(loc[p].date_obj, platform)
       IN  IF IsRaised(r) THEN Raise(p, r.exc)
           ELSE /\ loc' = [loc EXCEPT ![p].date_jd = SetFormat(@, "jd"),
                                      ![p].date_str = r]
                /\ Goto(p, "L70")
                /\ UNCHANGED <<fn, arg, ret, exc, branch, prev>>
    /\ UNCHANGED handles
    /\ UNCHANGED <<envVars, settingsVars>>

\* date_jd.format = 'jd'
L58(p) ==
    /\ pc[p] = "L58"
    /\ loc' = [loc EXCEPT ![p].date_jd = SetFormat(@, "jd")]
    /\ Goto(p, "L70")
    /\ UNCHANGED <<fn, arg, ret, exc, branch, prev, handles>>
    /\ UNCHANGED <<envVars, settingsVars>>

\* t = Time(date, format='jd')
L60(p) ==
    /\ pc[p] = "L60"
    /\ loc' = [loc EXCEPT ![p].t = Time_jd(arg[p])]
    /\ Goto(p, "L61")
    /\ UNCHANGED <<fn, arg, ret, exc, branch, prev, handles>>
    /\ UNCHANGED <<envVars, settingsVars>>

\* date_obj = t.datetime
L61(p) ==
    /\ pc[p] = "L61"
    /\ LET r == Time_datetime(loc[p].t)
       IN  IF IsRaised(r) THEN Raise(p, r.exc)
           ELSE /\ loc' = [loc EXCEPT ![p].date_obj = r]
                /\ Goto(p, "L62")
                /\ UNCHANGED <<fn, arg, ret, exc, branch, prev>>
    /\ UNCHANGED handles
    /\ UNCHANGED <<envVars, settingsVars>>

\* date_str = date_obj.strftime('%Y-%m-%dT%H:%M:%S.%s')
L62(p) ==
    /\ pc[p] = "L62"
    /\ LET r == strftime(loc[p].date_obj, platform)
       IN  IF IsRaised(r) THEN Raise(p, r.exc)
           ELSE /\ loc' = [loc EXCEPT ![p].date_str = r]
                /\ Goto(p, "L63")
                /\ UNCHANGED <<fn, arg, ret, exc, branch, prev>>
    /\ UNCHANGED handles
    /\ UNCHANGED <<envVars, settingsVars>>

\* date_jd = date
L63(p) ==
    /\ pc[p] = "L63"
    /\ loc' = [loc EXCEPT ![p].date_jd = arg[p]]
    /\ Goto(p, "L70")
    /\ UNCHANGED <<fn, arg, ret, exc, branch, prev, handles>>
    /\ UNCHANGED <<envVars, settingsVars>>

\* date_obj = date
L65(p) ==
    /\ pc[p] = "L65"
    /\ loc' = [loc EXCEPT ![p].date_obj = arg[p]]
    /\ Goto(p, "L66")
    /\ UNCHANGED <<fn, arg, ret, exc, branch, prev, handles>>
    /\ UNCHANGED <<envVars, settingsVars>>

\* date_str = date_obj.strftime('%Y-%m-%dT%H:%M:%S.%s')
L66(p) ==
    /\ pc[p] = "L66"
    /\ LET r == strftime(loc[p].date_obj, platform)
       IN  IF IsRaised(r) THEN Raise(p, r.exc)
           ELSE /\ loc' = [loc EXCEPT ![p].date_str = r]
                /\ Goto(p, "L67")
                /\ UNCHANGED <<fn, arg, ret, exc, branch, prev>>
    /\ UNCHANGED handles
    /\ UNCHANGED <<envVars, settingsVars>>

\* date_jd = Time(date_str)
L67(p) ==
    /\ pc[p] = "L67"
    /\ LET r == Time_str(loc[p].date_str.chars)
       IN  IF IsRaised(r) THEN Raise(p, r.exc)
           ELSE /\ loc' = [loc EXCEPT ![p].date_jd = r]
                /\ Goto(p, "L68")
                /\ UNCHANGED <<fn, arg, ret, exc, branch, prev>>
    /\ UNCHANGED handles
    /\ UNCHANGED <<envVars, settingsVars>>

\* date_jd.format = 'jd'
L68(p) ==
    /\ pc[p] = "L68"
    /\ loc' = [loc EXCEPT ![p].date_jd = SetFormat(@, "jd")]
    /\ Goto(p, "L70")
    /\ UNCHANGED <<fn, arg, ret, exc, branch, prev, handles>>
    /\ UNCHANGED <<envVars, settingsVars>>

\* return date_str, date_obj, date_jd
L70(p) ==
    /\ pc[p] = "L70"
    /\ ret' = [ret EXCEPT ![p] = ReturnTuple(loc[p].date_str, loc[p].date_obj, loc[p].date_jd)]
    /\ loc' = [loc EXCEPT ![p] = NoLocals]
    /\ Goto(p, "returned")
    /\ UNCHANGED <<fn, arg, exc, branch, prev, handles>>
    /\ UNCHANGED <<envVars, settingsVars>>

\* the caller passes the string form it got from get_dates(s) to get_dates again
Call_get_dates_again(p) ==
    /\ pc[p] = "returned"
    /\ fn[p] = "get_dates"
    /\ arg[p].type = "str"
    /\ prev[p] = None
    /\ prev' = [prev EXCEPT ![p] = [type |-> "call", arg |-> arg[p], ret |-> ret[p]]]
    /\ arg' = [arg EXCEPT ![p] = ret[p].items[1]]
    /\ ret' = [ret EXCEPT ![p] = None]
    /\ branch' = [branch EXCEPT ![p] = <<>>]
    /\ Goto(p, "L54")
    /\ UNCHANGED <<fn, loc, exc, handles>>
    /\ UNCHANGED <<envVars, settingsVars>>

(***************************************************************************)
(* read_csv(csv_file_path), one action per source line; list(reader) takes *)
(* one step per row.                                                       *)
(***************************************************************************)
PathArgs == IF Cardinality(callers) = 1 THEN Paths ELSE ConcPaths

Call_read_csv(p) ==
    /\ p \in callers
    /\ pc[p] = "idle"
    /\ \E path \in PathArgs :
          arg' = [arg EXCEPT ![p] = [type |-> "path", name |-> path]]
    /\ fn' = [fn EXCEPT ![p] = "read_csv"]
    /\ Goto(p, "L30")
    /\ UNCHANGED <<loc, ret, exc, branch, prev, handles>>
    /\ UNCHANGED <<envVars, settingsVars>>

\* with open(csv_file_path, newline='') as f:
L30(p) ==
    /\ pc[p] = "L30"
    /\ LET outcome == open_outcome(fs[arg[p].name])
       IN  IF outcome # "ok"
           THEN Raise(p, outcome) /\ UNCHANGED handles
           ELSE /\ handles' = [handles EXCEPT ![handle_of(p)] = open_file(arg[p].name)]
                /\ loc' = [loc EXCEPT ![p].f = handle_of(p)]
                /\ Goto(p, "L31")
                /\ UNCHANGED <<fn, arg, ret, exc, branch, prev>>
    /\ UNCHANGED <<envVars, settingsVars>>

\* reader = csv.reader(f)
L31(p) ==
    /\ pc[p] = "L31"
    /\ loc' = [loc EXCEPT ![p].reader = loc[p].f]
    /\ Goto(p, "L32")
    /\ UNCHANGED <<fn, arg, ret, exc, branch, prev, handles>>
    /\ UNCHANGED <<envVars, settingsVars>>

\* csv_list = list(reader): the next row is appended, or the rows end, or
\* the exception is on its way out of the with block
L32(p) ==
    /\ pc[p] = "L32"
    /\ LET k == loc[p].reader
           h == handles[k]
           r == IF h.state = "open" THEN reader_next(fs[h.path].content, h.pos)
                ELSE [kind |-> "raise", exc |-> "ValueError", row |-> <<>>, pos |-> 0]
       IN  IF r.kind = "row"
           THEN /\ loc' = [loc EXCEPT ![p].csv_list = Append(@, r.row)]
                /\ handles' = [handles EXCEPT ![k].pos = r.pos]
                /\ UNCHANGED pc
           ELSE /\ loc' = [loc EXCEPT ![p].pending = r.exc]
                /\ Goto(p, "L30_exit")
                /\ UNCHANGED handles
    /\ UNCHANGED <<fn, arg, ret, exc, branch, prev>>
    /\ UNCHANGED <<envVars, settingsVars>>

\* the with block is left: f is closed, and a pending exception goes on
L30_exit(p) ==
    /\ pc[p] = "L30_exit"
    /\ handles' = [handles EXCEPT ![loc[p].f] = with_exit(@, loc[p].pending # "none")]
    /\ IF loc[p].pending # "none"
       THEN Raise(p, loc[p].pending)
       ELSE /\ Goto(p, "L34")
            /\ UNCHANGED <<fn, arg, loc, ret, exc, branch, prev>>
    /\ UNCHANGED <<envVars, settingsVars>>

\* the first row taken for a header and left out
L34_drops_header(p) ==
    /\ pc[p] = "L34"
    /\ ret' = [ret EXCEPT ![p] = [type |-> "list",
                                  rows |-> IF loc[p].csv_list = <<>> THEN <<>>
                                           ELSE Tail(loc[p].csv_list)]]
    /\ loc' = [loc EXCEPT ![p] = NoLocals]
    /\ Goto(p, "returned")
    /\ UNCHANGED <<fn, arg, exc, branch, prev, handles>>
    /\ UNCHANGED <<envVars, settingsVars>>

\* return csv_list
L34(p) ==
    /\ pc[p] = "L34"
    /\ ret' = [ret EXCEPT ![p] = [type |-> "list", rows |-> loc[p].csv_list]]
    /\ loc' = [loc EXCEPT ![p] = NoLocals]
    /\ Goto(p, "returned")
    /\ UNCHANGED <<fn, arg, exc, branch, prev, handles>>
    /\ UNCHANGED <<envVars, settingsVars>>

(***************************************************************************)
(* import settings: the class bodies run in order, once.                   *)
(***************************************************************************)
\* class BaseDir: BASE_DIR = os.path.realpath('../../')
Load_BaseDir ==
    /\ spc = "unloaded"
    /\ BASE_DIR' = realpath_up2(cwd)
    /\ spc' = "BaseDir"
    /\ UNCHANGED <<cwd, CSV_DIR, CALC, DATA_DIR, GONG, PSP, SO, IMG_DIR>>
    /\ UNCHANGED <<envVars, callVars>>

Load_CsvDir ==
    /\ spc = "BaseDir"
    /\ CSV_DIR' = CsvDir_CSV_DIR(BASE_DIR)
    /\ CALC' = CsvDir_CALC(CSV_DIR')
    /\ spc' = "CsvDir"
    /\ UNCHANGED <<cwd, BASE_DIR, DATA_DIR, GONG, PSP, SO, IMG_DIR>>
    /\ UNCHANGED <<envVars, callVars>>

Load_DataDir ==
    /\ spc = "CsvDir"
    /\ DATA_DIR' = DataDir_DATA_DIR(BASE_DIR)
    /\ GONG' = DataDir_GONG(DATA_DIR')
    /\ PSP' = DataDir_PSP(DATA_DIR')
    /\ SO' = DataDir_SO(DATA_DIR')
    /\ spc' = "DataDir"
    /\ UNCHANGED <<cwd, BASE_DIR, CSV_DIR, CALC, IMG_DIR>>
    /\ UNCHANGED <<envVars, callVars>>

Load_ImgDir ==
    /\ spc = "DataDir"
    /\ IMG_DIR' = ImgDir_IMG_DIR(BASE_DIR)
    /\ spc' = "loaded"
    /\ UNCHANGED <<cwd, BASE_DIR, CSV_DIR, CALC, DATA_DIR, GONG, PSP, SO>>
    /\ UNCHANGED <<envVars, callVars>>

CwdChoices == SeqsUpTo(DirNames, MaxCwdDepth)

\* the process changes its working directory (before, during or after the import)
Chdir ==
    /\ \E d \in CwdChoices : d # cwd /\ cwd' = d
    /\ UNCHANGED <<spc, BASE_DIR, CSV_DIR, CALC, DATA_DIR, GONG, PSP, SO, IMG_DIR>>
    /\ UNCHANGED <<envVars, callVars>>

(***************************************************************************)
(* The two functions run from call to return with nothing in between.      *)
(***************************************************************************)
Outcome(r, e) == [ret |-> r, exc |-> e]

\* get_dates(date) on the given platform
get_dates_alone(date, plat) ==
    IF date.type = "str"
    THEN LET date_obj == strptime(date.chars)
             date_jd == Time_str(date.chars)
         IN  IF IsRaised(date_obj) THEN Outcome(None, date_obj.exc)
             ELSE IF IsRaised(date_jd) THEN Outcome(None, date_jd.exc)
             ELSE Outcome(ReturnTuple(date, date_obj, SetFormat(date_jd, "jd")), "none")
    ELSE IF date.type = "float"
    THEN LET date_obj == Time_datetime(Time_jd(date))
             date_str == strftime(date_obj, plat)
         IN  IF IsRaised(date_obj) THEN Outcome(None, date_obj.exc)
             ELSE IF IsRaised(date_str) THEN Outcome(None, date_str.exc)
             ELSE Outcome(ReturnTuple(date_str, date_obj, date), "none")
    ELSE LET date_str == strftime(date, plat)
             date_jd == Time_str(date_str.chars)
         IN  IF IsRaised(date_str) THEN Outcome(None, date_str.exc)
             ELSE IF IsRaised(date_jd) THEN Outcome(None, date_jd.exc)
             ELSE Outcome(ReturnTuple(date_str, date, SetFormat(date_jd, "jd")), "none")

\* list(reader) on a file read from position pos, rows so far in acc
RECURSIVE list_reader(_, _, _)
list_reader(content, pos, acc) ==
    LET r == reader_next(content, pos)
    IN  IF r.kind = "row" THEN list_reader(content, r.pos, Append(acc, r.row))
        ELSE IF r.kind = "stop" THEN Outcome([type |-> "list", rows |-> acc], "none")
        ELSE Outcome(None, r.exc)

\* read_csv(csv_file_path) on the given files
read_csv_alone(files, path) ==
    IF open_outcome(files[path]) # "ok" THEN Outcome(None, open_outcome(files[path]))
    ELSE list_reader(files[path].content, 1, <<>>)

(***************************************************************************)
(* Specifications.                                                         *)
(***************************************************************************)
\* one caller of get_dates, on every input of DateInputs
InitDates ==
    /\ platform \in Platforms
    /\ fs = FsWith(<<>>)
    /\ callers = {1}
    /\ InitCalls
    /\ cwd = <<>>
    /\ InitSettingsUnloaded

NextDates ==
    \E p \in CallerIds :
        \/ Call_get_dates(p) \/ L54(p) \/ L55(p) \/ L56(p) \/ L57(p) \/ L58(p)
        \/ L60(p) \/ L61(p) \/ L62(p) \/ L63(p)
        \/ L65(p) \/ L66(p) \/ L67(p) \/ L68(p) \/ L70(p)
        \/ Call_get_dates_again(p)

SpecDates == InitDates /\ [][NextDates]_vars

\* one caller of read_csv, on every file content of Contents
InitCsv ==
    /\ platform = "glibc"
    /\ fs \in {FsWith(c) : c \in Contents}
    /\ callers = {1}
    /\ InitCalls
    /\ cwd = <<>>
    /\ InitSettingsUnloaded

NextCsv ==
    \E p \in CallerIds :
        \/ Call_read_csv(p) \/ L30(p) \/ L31(p) \/ L32(p) \/ L30_exit(p) \/ L34(p)

SpecCsv == InitCsv /\ [][NextCsv]_vars

\* NumCallers callers whose calls interleave line by line
Init ==
    /\ platform \in Platforms
    /\ fs \in {FsWith(c) : c \in ConcContents}
    /\ callers = CallerIds
    /\ InitCalls
    /\ cwd = <<>>
    /\ InitSettingsUnloaded

Next ==
    \E p \in CallerIds :
        \/ Call_get_dates(p) \/ L54(p) \/ L55(p) \/ L56(p) \/ L57(p) \/ L58(p)
        \/ L60(p) \/ L61(p) \/ L62(p) \/ L63(p)
        \/ L65(p) \/ L66(p) \/ L67(p) \/ L68(p) \/ L70(p)
        \/ Call_get_dates_again(p)
        \/ Call_read_csv(p) \/ L30(p) \/ L31(p) \/ L32(p) \/ L30_exit(p) \/ L34(p)

Spec == Init /\ [][Next]_vars

\* the import of settings.py from any working directory
InitSettings ==
    /\ platform = "glibc"
    /\ fs = FsWith(<<>>)
    /\ callers = {}
    /\ InitCalls
    /\ cwd \in CwdChoices
    /\ InitSettingsUnloaded

NextSettings == Load_BaseDir \/ Load_CsvDir \/ Load_DataDir \/ Load_ImgDir \/ Chdir

SpecSettings == InitSettings /\ [][NextSettings]_vars

(***************************************************************************)
(* Properties.                                                             *)
(***************************************************************************)
Finished(p) == pc[p] \in {"returned", "raised"}

IsDigits(s, from, to) == \A i \in from..to : CharAt(s, i) \in Digits

\* the text is exactly YYYY-MM-DDTHH:MM:SS.ffffff
IsExactFormat(s) ==
    /\ Len(s) = 26
    /\ IsDigits(s, 1, 4) /\ s[5] = "-" /\ IsDigits(s, 6, 7) /\ s[8] = "-"
    /\ IsDigits(s, 9, 10) /\ s[11] = "T" /\ IsDigits(s, 12, 13) /\ s[14] = ":"
    /\ IsDigits(s, 15, 16) /\ s[17] = ":" /\ IsDigits(s, 18, 19) /\ s[20] = "."
    /\ IsDigits(s, 21, 26)

\* the number written by the digits of s from position from to position to
NumberAt(s, from, to) == ToInt(SubSeq(s, from, to))

\* the text is a date and time that strptime's '%Y-%m-%dT%H:%M:%S.%f' takes:
\* a four-digit year, one or two digits for each of month, day, hour, minute
\* and second (the day also as a space and a digit), "T" in either case, one to
\* six digits of fraction, nothing before or after, every field in its range
IsAcceptedText(s) ==
    \E wm, wd, wh, wi, ws \in {1, 2} : \E wf \in 1..6 :
        LET m0 == 6
            d0 == m0 + wm + 1
            h0 == d0 + wd + 1
            i0 == h0 + wh + 1
            s0 == i0 + wi + 1
            f0 == s0 + ws + 1
            year   == NumberAt(s, 1, 4)
            month  == NumberAt(s, m0, m0 + wm - 1)
            day    == NumberAt(s, d0, d0 + wd - 1)
        IN  /\ Len(s) = f0 + wf - 1
            /\ IsDigits(s, 1, 4) /\ s[5] = "-"
            /\ IsDigits(s, m0, m0 + wm - 1) /\ s[d0 - 1] = "-"
            /\ \/ IsDigits(s, d0, d0 + wd - 1)
               \/ wd = 2 /\ s[d0] = " " /\ IsDigits(s, d0 + 1, d0 + 1)
            /\ s[h0 - 1] \in {"T", "t"}
            /\ IsDigits(s, h0, h0 + wh - 1) /\ s[i0 - 1] = ":"
            /\ IsDigits(s, i0, i0 + wi - 1) /\ s[s0 - 1] = ":"
            /\ IsDigits(s, s0, s0 + ws - 1) /\ s[f0 - 1] = "."
            /\ IsDigits(s, f0, f0 + wf - 1)
            /\ year >= 1 /\ month \in 1..12 /\ day \in 1..DaysInMonth(year, month)
            /\ NumberAt(s, h0, h0 + wh - 1) <= 23
            /\ NumberAt(s, i0, i0 + wi - 1) <= 59
            /\ NumberAt(s, s0, s0 + ws - 1) <= 59

\* C1: every get_dates call that returns gives a 3-tuple (string form,
\* datetime form, Julian-Date form) with the input itself in the slot of its
\* shape: a string first, a float third, any other object second (the same
\* object, identity included).
C1_InputEchoedInItsSlot ==
    \A p \in CallerIds :
        (fn[p] = "get_dates" /\ pc[p] = "returned") =>
            /\ ret[p].type = "tuple"
            /\ Len(ret[p].items) = 3
            /\ ret[p].items[1].type = "str"
            /\ ret[p].items[2].type = "datetime"
            /\ \/ ret[p].items[3].type = "float"
               \/ ret[p].items[3].type = "Time" /\ ret[p].items[3].format = "jd"
            /\ arg[p].type = "str" => ret[p].items[1] = arg[p]
            /\ arg[p].type = "float" => ret[p].items[3] = arg[p]
            /\ arg[p].type \notin {"str", "float"} => ret[p].items[2] = arg[p]

C1_Witness ==
    \E p \in CallerIds :
        /\ fn[p] = "get_dates" /\ pc[p] = "returned"
        /\ arg[p].type = "datetime" /\ arg[p].id = 2
        /\ ret[p].items[2].id = 2

\* C2: on every get_dates call that returns, the third element is a float.
C2_JulianDateIsFloat ==
    \A p \in CallerIds :
        (fn[p] = "get_dates" /\ pc[p] = "returned") => ret[p].items[3].type = "float"

\* C3: for s in the exact format, get_dates on the string form that
\* get_dates(s) returned succeeds with the same datetime and Julian-Date forms.
C3_SecondCallAgrees ==
    \A p \in CallerIds :
        (/\ fn[p] = "get_dates" /\ Finished(p)
         /\ prev[p] # None /\ IsExactFormat(prev[p].arg.chars)) =>
            /\ pc[p] = "returned"
            /\ Fields(ret[p].items[2]) = Fields(prev[p].ret.items[2])
            /\ ret[p].items[3] = prev[p].ret.items[3]

C3_Witness ==
    \E p \in CallerIds :
        /\ fn[p] = "get_dates" /\ pc[p] = "returned"
        /\ prev[p] # None /\ prev[p].arg = Str(GoodText)
        /\ ret[p].items[2].year = 2022

C5_FileClosedAtEnd ==
    \A p \in CallerIds :
        (fn[p] = "read_csv" /\ Finished(p)) =>
            /\ \A k \in CallerIds : handles[k].state # "open"
            /\ fs[arg[p].name].kind = "file" => handles[p].state = "closed"

C5_Witness ==
    \E p \in CallerIds :
        /\ fn[p] = "read_csv" /\ pc[p] = "raised" /\ exc[p] = "UnicodeDecodeError"
        /\ handles[p].state = "closed"

\* the lines of a text: split after every LF; no line after a final LF
RECURSIVE LinesOf(_, _)
LinesOf(text, line) ==
    IF text = <<>> THEN (IF line = <<>> THEN <<>> ELSE <<line>>)
    ELSE IF Head(text) = LF THEN <<line>> \o LinesOf(Tail(text), <<>>)
    ELSE LinesOf(Tail(text), Append(line, Head(text)))

\* the fields of a line: split at every comma; an empty line has no field
RECURSIVE SplitCommas(_, _)
SplitCommas(line, field) ==
    IF line = <<>> THEN <<field>>
    ELSE IF Head(line) = "," THEN <<field>> \o SplitCommas(Tail(line), <<>>)
    ELSE SplitCommas(Tail(line), Append(field, Head(line)))

FieldsOfLine(line) == IF line = <<>> THEN <<>> ELSE SplitCommas(line, <<>>)

RowsOf(text) ==
    LET lines == LinesOf(text, <<>>)
    IN  [i \in 1..Len(lines) |-> FieldsOfLine(lines[i])]

HasNoQuote(text) == \A i \in 1..Len(text) : text[i] # DQ

\* C6: read_csv returns every line of the file as a row, in file order, the
\* first included, each row the list of the line's comma-separated fields as
\* text, whatever the rows' lengths; an empty file gives an empty list.
\* (Stated for files without quoted fields.)
C6_AllRowsInOrder ==
    \A p \in CallerIds :
        (fn[p] = "read_csv" /\ pc[p] = "returned") =>
            LET text == fs[arg[p].name].content
            IN  /\ ret[p].type = "list"
                /\ HasNoQuote(text) => ret[p].rows = RowsOf(text)
                /\ text = <<>> => ret[p].rows = <<>>

C6_Witness ==
    \E p \in CallerIds :
        /\ fn[p] = "read_csv" /\ pc[p] = "returned"
        /\ HasNoQuote(fs[arg[p].name].content)
        /\ Len(ret[p].rows) = 2
        /\ Len(ret[p].rows[1]) # Len(ret[p].rows[2])

\* C7: read_csv on a path that does not exist or cannot be opened ends in the
\* exception of open() (FileNotFoundError for a missing path); it returns
\* nothing and no file is open.
C7_MissingPathFails ==
    \A p \in CallerIds :
        (fn[p] = "read_csv" /\ fs[arg[p].name].kind # "file") =>
            /\ pc[p] \in {"L30", "raised"}
            /\ ret[p] = None
            /\ handles[p] = NoHandle
            /\ pc[p] = "raised" =>
                  /\ exc[p] \in {"FileNotFoundError", "IsADirectoryError", "PermissionError"}
                  /\ fs[arg[p].name].kind = "missing" => exc[p] = "FileNotFoundError"

C7_Witness ==
    \E p \in CallerIds :
        /\ fn[p] = "read_csv" /\ arg[p].name = "missing.csv"
        /\ pc[p] = "raised" /\ exc[p] = "FileNotFoundError"

\* P/name as text: the root is "/" already
Under(P, name) == IF P = <<SEP>> THEN <<SEP, name>> ELSE P \o <<SEP, name>>

IsPrefix(a, b) == Len(a) <= Len(b) /\ SubSeq(b, 1, Len(a)) = a

AfterLoad(steps) == spc \in steps

C8_Derived ==
    /\ AfterLoad({"CsvDir", "DataDir", "loaded"}) =>
          /\ CSV_DIR = Under(BASE_DIR, "csv_files")
          /\ CALC = Under(CSV_DIR, "calcs")
    /\ AfterLoad({"DataDir", "loaded"}) =>
          /\ DATA_DIR = Under(BASE_DIR, "data")
          /\ GONG = Under(DATA_DIR, "gong")
          /\ PSP = Under(DATA_DIR, "psp")
          /\ SO = Under(DATA_DIR, "so")
    /\ AfterLoad({"loaded"}) =>
          /\ IMG_DIR = Under(BASE_DIR, "images")
          /\ \A d \in {CSV_DIR, CALC, DATA_DIR, GONG, PSP, SO, IMG_DIR} :
                IsPrefix(BASE_DIR, d) /\ d # BASE_DIR

C8_Stable ==
    /\ spc # "unloaded" => BASE_DIR' = BASE_DIR
    /\ spc = "loaded" =>
          UNCHANGED <<CSV_DIR, CALC, DATA_DIR, GONG, PSP, SO, IMG_DIR>>

\* C8: for the base directory P resolved at load time, CSV_DIR = P/csv_files,
\* CALC = CSV_DIR/calcs, DATA_DIR = P/data, GONG, PSP, SO = DATA_DIR/gong, /psp,
\* /so and IMG_DIR = P/images, each below BASE_DIR; and no step changes a value
\* once it is set.
C8_PathsDerivedAndStable == []C8_Derived /\ [][C8_Stable]_vars

C8_Witness ==
    /\ spc = "loaded"
    /\ BASE_DIR = <<SEP, "my proj">>
    /\ CALC = <<SEP, "my proj", SEP, "csv_files", SEP, "calcs">>
    /\ realpath_up2(cwd) # BASE_DIR

\* C9: whatever the interleaving, a call that has ended gave what the same
\* call gives when it runs alone, and left no file of its own open.
C9_SameAsAlone ==
    \A p \in CallerIds :
        Finished(p) =>
            /\ fn[p] = "get_dates" =>
                  Outcome(ret[p], exc[p]) = get_dates_alone(arg[p], platform)
            /\ fn[p] = "read_csv" =>
                  /\ Outcome(ret[p], exc[p]) = read_csv_alone(fs, arg[p].name)
                  /\ handles[p].state # "open"

C9_Witness ==
    \E p, q \in CallerIds :
        /\ p # q
        /\ fn[p] = "read_csv" /\ fn[q] = "read_csv"
        /\ arg[p] = arg[q]
        /\ pc[p] = "returned" /\ pc[q] = "L32"
        /\ Len(ret[p].rows) = 2 /\ loc[q].csv_list # <<>>

\* C10: get_dates enters exactly one branch, chosen by the type of its input
\* (str, then float, then anything else, an int included); an input that
\* cannot format itself ends in an AttributeError; after a failure nothing is
\* returned and no second branch is entered.
C10_OneBranchByType ==
    \A p \in CallerIds :
        fn[p] = "get_dates" =>
            /\ Len(branch[p]) <= 1
            /\ pc[p] \in {"L55", "L56", "L57", "L58"} => arg[p].type = "str"
            /\ pc[p] \in {"L60", "L61", "L62", "L63"} => arg[p].type = "float"
            /\ pc[p] \in {"L65", "L66", "L67", "L68"} =>
                  arg[p].type \in {"datetime", "int", "NoneType"}
            /\ pc[p] \notin {"idle", "L54"} =>
                  branch[p] = <<CASE arg[p].type = "str" -> "str"
                                  [] arg[p].type = "float" -> "float"
                                  [] arg[p].type \in {"datetime", "int", "NoneType"} -> "other">>
            /\ (Finished(p) /\ arg[p].type \in {"int", "NoneType"}) =>
                  pc[p] = "raised" /\ exc[p] = "AttributeError"
            /\ pc[p] = "raised" => ret[p] = None

C10_Witness ==
    \E p \in CallerIds :
        /\ fn[p] = "get_dates" /\ arg[p].type = "int"
        /\ pc[p] = "raised" /\ exc[p] = "AttributeError"
        /\ branch[p] = <<"other">>

====
